---- MODULE Spec2Model ----
(***************************************************************************)
(* Model of the CompareFunction package: the HTTP entry point main         *)
(* (CompareFunction/__init__.py) and the comparison engine                 *)
(* process_parallel_blob / compare_chunk / normalize                       *)
(* (CompareFunction/compare_parallel.py).                                  *)
(*                                                                         *)
(* A str is a sequence of one-character tokens.  A cell value is a record  *)
(* [t, s]: t = "str" with s the characters, t = "num" with s = str(val) of *)
(* an int or float, t = "na" for None / NaN.  A DataFrame is a record      *)
(* [columns, rows]; a row is a function from column name to cell value.    *)
(***************************************************************************)
EXTENDS Integers, Sequences, FiniteSets, TLC

VARIABLES
    pc,            \* position of the main thread
    req_body,      \* the request handed to main
    src_df,        \* DataFrame returned by read_blob_to_df(source_blob)
    tgt_df,        \* DataFrame returned by read_blob_to_df(target_blob)
    pk_col,        \* primary-key column name
    chunk_size,    \* auto-tuned chunk size
    thread_count,  \* auto-tuned max_workers of the pool
    chunks,        \* math.ceil(total_source / chunk_size)
    futures,       \* submitted work items, in submission order
    queue,         \* the executor's FIFO work queue (indices into futures)
    done_order,    \* indices of futures in the order their workers finished
    collected,     \* futures as_completed has yielded to the main thread
    early,         \* futures already finished when as_completed was entered
    agg,           \* all_diffs, matched, missing, mismatched, checked
    exc,           \* exception in flight inside process_parallel_blob
    sink,          \* blobs uploaded by write_results_to_blob, oldest first
    response,      \* HttpResponse returned by main
    fn_in,         \* argument of a function applied on its own
    fn_out         \* its result

vars == << pc, req_body, src_df, tgt_df, pk_col, chunk_size, thread_count,
           chunks, futures, queue, done_order, collected, early, agg, exc,
           sink, response, fn_in, fn_out >>

----------------------------------------------------------------------------
(* Characters *)

SP   == " "
TAB  == "\\t"
CR   == "\\r"
NL   == "\\n"
NBSP == "\\xa0"

\* characters str.strip() removes from both ends
Whitespace == {SP, TAB, CR, NL, NBSP}

Str(s) == [t |-> "str", s |-> s]
Num(s) == [t |-> "num", s |-> s]
NA     == [t |-> "na", s |-> <<>>]

----------------------------------------------------------------------------
(* str methods used by the code *)

RECURSIVE lstrip(_)
lstrip(s) ==
    IF s # <<>> /\ Head(s) \in Whitespace THEN lstrip(Tail(s)) ELSE s

RECURSIVE rstrip(_)
rstrip(s) ==
    IF s # <<>> /\ s[Len(s)] \in Whitespace
    THEN rstrip(SubSeq(s, 1, Len(s) - 1))
    ELSE s

\* str.strip()
strip(s) == rstrip(lstrip(s))

\* str.replace(c, "")
replace(s, c) == SelectSeq(s, LAMBDA ch : ch # c)

\* str(val).endswith(".0")
endswith_dot0(s) ==
    Len(s) >= 2 /\ s[Len(s) - 1] = "." /\ s[Len(s)] = "0"

\* str(int(val)) for a float whose str ends in ".0": the integer part, and
\* int(-0.0) is 0
str_int(s) ==
    LET body == SubSeq(s, 1, Len(s) - 2)
    IN  IF body = << "-", "0" >> THEN << "0" >> ELSE body

----------------------------------------------------------------------------
(* normalize, compare_parallel.py:45-48 *)

\* strips blanks only before removing \xa0, \r and \t
normalize_strip_blanks(val) ==
    IF val.t = "na" THEN <<>>
    ELSE LET v  == IF val.t = "num" /\ endswith_dot0(val.s)
                   THEN str_int(val.s) ELSE val.s
             RECURSIVE ls(_)
             ls(x) == IF x # <<>> /\ Head(x) = SP THEN ls(Tail(x)) ELSE x
             RECURSIVE rs(_)
             rs(x) == IF x # <<>> /\ x[Len(x)] = SP
                      THEN rs(SubSeq(x, 1, Len(x) - 1)) ELSE x
         IN  replace(replace(replace(rs(ls(v)), NBSP), CR), TAB)

\* strips but leaves embedded \t in place
normalize_keeps_tab(val) ==
    IF val.t = "na" THEN <<>>
    ELSE LET v == IF val.t = "num" /\ endswith_dot0(val.s)
                  THEN str_int(val.s) ELSE val.s
         IN  replace(replace(strip(v), NBSP), CR)

normalize(val) ==
    IF val.t = "na" THEN <<>>
    ELSE LET v == IF val.t = "num" /\ endswith_dot0(val.s)
                  THEN str_int(val.s) ELSE val.s
         IN  replace(replace(replace(strip(v), NBSP), CR), TAB)

----------------------------------------------------------------------------
(* compare_chunk, compare_parallel.py:39-73 *)

NoDiff == [col \in {} |-> 0]

EmptyResult ==
    [diffs |-> <<>>, matched |-> 0, missing |-> 0, mismatched |-> 0,
     checked |-> 0]

\* keys the map by the raw primary-key cell instead of its normalized value
tgt_map_put_raw_key(tgt_map, row, pk, columns) ==
    LET k == row[pk].s
        n == [col \in columns |-> normalize(row[col])]
    IN  [x \in DOMAIN tgt_map \cup {k} |-> IF x = k THEN n ELSE tgt_map[x]]

\* keeps the first row seen for a key instead of overwriting it
tgt_map_put_first_wins(tgt_map, row, pk, columns) ==
    LET k == normalize(row[pk])
        n == [col \in columns |-> normalize(row[col])]
    IN  IF k \in DOMAIN tgt_map THEN tgt_map
        ELSE [x \in DOMAIN tgt_map \cup {k} |-> IF x = k THEN n ELSE tgt_map[x]]

\* tgt_map[pk] = {col: normalize(row[col]) for col in tgt_chunk.columns}
tgt_map_put(tgt_map, row, pk, columns) ==
    LET k == normalize(row[pk])
        n == [col \in columns |-> normalize(row[col])]
    IN  [x \in DOMAIN tgt_map \cup {k} |-> IF x = k THEN n ELSE tgt_map[x]]

\* the loop over tgt_chunk.iterrows(), rows i..end; later rows overwrite
RECURSIVE build_tgt_map(_, _, _, _)
build_tgt_map(tgt_map, tgt_chunk, pk, i) ==
    IF i > Len(tgt_chunk.rows) THEN tgt_map
    ELSE build_tgt_map(
             tgt_map_put(tgt_map, tgt_chunk.rows[i], pk, tgt_chunk.columns),
             tgt_chunk, pk, i + 1)

\* tgt_row.get(col, "")
tgt_get(tgt_row, col) ==
    IF col \in DOMAIN tgt_row THEN tgt_row[col] ELSE <<>>

\* compares only the columns the target row has
mismatch_cols_target_only(src_row, tgt_row, pk, columns) ==
    {col \in (columns \cap DOMAIN tgt_row) \ {pk} :
        normalize(src_row[col]) # tgt_get(tgt_row, col)}

\* the columns of the mismatch dict of one source row
mismatch_cols(src_row, tgt_row, pk, columns) ==
    {col \in columns \ {pk} : normalize(src_row[col]) # tgt_get(tgt_row, col)}

\* a missing row leaves the loop before it is counted as checked
compare_row_skips_checked(res, src_row, tgt_map, pk, columns) ==
    LET pk_val == normalize(src_row[pk])
    IN  IF pk_val \notin DOMAIN tgt_map
        THEN [res EXCEPT !.missing = @ + 1,
                         !.diffs = Append(@, [PK |-> pk_val,
                                              Status |-> "MISSING_IN_TARGET",
                                              Diff |-> NoDiff])]
        ELSE LET tgt_row == tgt_map[pk_val]
                 cols    == mismatch_cols(src_row, tgt_row, pk, columns)
                 mismatch == [col \in cols |->
                                 [src |-> normalize(src_row[col]),
                                  tgt |-> tgt_get(tgt_row, col)]]
             IN  IF cols # {}
                 THEN [res EXCEPT !.checked = @ + 1, !.mismatched = @ + 1,
                                  !.diffs = Append(@, [PK |-> pk_val,
                                                       Status |-> "MISMATCH",
                                                       Diff |-> mismatch])]
                 ELSE [res EXCEPT !.checked = @ + 1, !.matched = @ + 1]

\* one iteration of the loop over src_chunk.iterrows()
compare_row(res, src_row, tgt_map, pk, columns) ==
    LET pk_val == normalize(src_row[pk])
    IN  IF pk_val \notin DOMAIN tgt_map
        THEN [res EXCEPT !.checked = @ + 1, !.missing = @ + 1,
                         !.diffs = Append(@, [PK |-> pk_val,
                                              Status |-> "MISSING_IN_TARGET",
                                              Diff |-> NoDiff])]
        ELSE LET tgt_row == tgt_map[pk_val]
                 cols    == mismatch_cols(src_row, tgt_row, pk, columns)
                 mismatch == [col \in cols |->
                                 [src |-> normalize(src_row[col]),
                                  tgt |-> tgt_get(tgt_row, col)]]
             IN  IF cols # {}
                 THEN [res EXCEPT !.checked = @ + 1, !.mismatched = @ + 1,
                                  !.diffs = Append(@, [PK |-> pk_val,
                                                       Status |-> "MISMATCH",
                                                       Diff |-> mismatch])]
                 ELSE [res EXCEPT !.checked = @ + 1, !.matched = @ + 1]

RECURSIVE compare_rows(_, _, _, _, _)
compare_rows(res, src_chunk, tgt_map, pk, i) ==
    IF i > Len(src_chunk.rows) THEN res
    ELSE compare_rows(
             compare_row(res, src_chunk.rows[i], tgt_map, pk,
                         src_chunk.columns),
             src_chunk, tgt_map, pk, i + 1)

compare_chunk(src_chunk, tgt_chunk, pk) ==
    LET tgt_map == IF tgt_chunk.rows # <<>> /\ tgt_chunk.columns # {}
                   THEN build_tgt_map(NoDiff, tgt_chunk, pk, 1)
                   ELSE NoDiff
    IN  compare_rows(EmptyResult, src_chunk, tgt_map, pk, 1)

----------------------------------------------------------------------------
(* Bounds and the contents the blob store can hold *)

MaxLongRows   == 3
MaxChunkSize  == 2
MaxThreads    == 2

RECURSIVE SeqsUpTo(_, _)
SeqsUpTo(S, n) ==
    IF n = 0 THEN {<<>>}
    ELSE LET shorter == SeqsUpTo(S, n - 1)
         IN  shorter \cup {Append(q, e) : q \in shorter, e \in S}

KeyXY   == Str(<< "x", "y" >>)
KeyXTY  == Str(<< "x", TAB, "y" >>)
KeySPZ  == Str(<< SP, "z" >>)
ValP    == Str(<< "p" >>)
ValQ    == Str(<< "q" >>)

\* CSV rows as pd.read_csv(dtype=str) yields them, before fillna and strip
CsvRows ==
    { [pk |-> KeyXY,  a |-> ValP],
      [pk |-> KeyXY,  a |-> ValQ],
      [pk |-> KeyXTY, a |-> ValP] }

\* files without the key column, without the value column, with a blank cell
OddCsv ==
    { [columns |-> {"a"},       rows |-> << [a |-> ValP] >>],
      [columns |-> {"pk"},      rows |-> << [pk |-> KeyXY] >>],
      [columns |-> {"pk", "a"}, rows |-> << [pk |-> KeyXY, a |-> NA] >>] }

\* a target file with a row whose key no short source file has
ExtraCsv ==
    [columns |-> {"pk", "a"}, rows |-> << [pk |-> KeyXY,  a |-> ValQ],
                                          [pk |-> KeySPZ, a |-> ValP] >>]

\* a longer file, for runs with more chunks than workers; its second row has
\* a key of its own, written with a leading blank
LongCsvRow(i) ==
    CASE i % 4 = 1 -> [pk |-> KeyXY,  a |-> ValP]
      [] i % 4 = 2 -> [pk |-> KeySPZ, a |-> ValP]
      [] i % 4 = 3 -> [pk |-> KeyXY,  a |-> ValQ]
      [] OTHER     -> [pk |-> KeyXTY, a |-> ValP]

LongCsv ==
    [columns |-> {"pk", "a"}, rows |-> [i \in 1..MaxLongRows |-> LongCsvRow(i)]]

\* the short files: no row, one row or two rows of CsvRows, and the odd ones;
\* the file whose length follows a bound is LongCsv
ShortCsv ==
    {[columns |-> {"pk", "a"}, rows |-> r] :
        r \in {<<>>} \cup {<< r1 >> : r1 \in CsvRows}
                     \cup {<< r1, r2 >> : r1 \in CsvRows, r2 \in CsvRows}}
        \cup OddCsv

SourceCsv == ShortCsv \cup {LongCsv}
TargetCsv == ShortCsv \cup {ExtraCsv}

Absent == "<absent>"

\* req.get_json() raises, returns a non-dict, or returns a dict
Requests ==
    { [json |-> "invalid", source_blob |-> Absent, target_blob |-> Absent,
       pk_col |-> Absent],
      [json |-> "array", source_blob |-> Absent, target_blob |-> Absent,
       pk_col |-> Absent] }
    \cup
    [ json : {"object"}, source_blob : {Absent, "", "src.csv"},
      target_blob : {Absent, "", "tgt.csv"}, pk_col : {Absent, "pk"} ]

NoRequest  == [json |-> "none", source_blob |-> Absent, target_blob |-> Absent,
               pk_col |-> Absent]
NoFrame    == [columns |-> {}, rows |-> <<>>]
NoResponse == [status_code |-> 0, body |-> ""]

----------------------------------------------------------------------------
(* read_blob_to_df, compare_parallel.py:13-17 *)

\* df.fillna("").applymap(lambda v: v.strip() if isinstance(v, str) else v)
fillna_strip(v) ==
    IF v.t = "na" THEN Str(<<>>)
    ELSE IF v.t = "str" THEN Str(strip(v.s)) ELSE v

read_blob_to_df(csv) ==
    [columns |-> csv.columns,
     rows    |-> [i \in 1..Len(csv.rows) |->
                     [col \in csv.columns |-> fillna_strip(csv.rows[i][col])]]]

----------------------------------------------------------------------------
(* process_parallel_blob, compare_parallel.py:75-113 *)

\* checks the source table only
key_missing_source_only(src, tgt, pk) ==
    pk \notin src.columns

\* pk_col not in src_df.columns or pk_col not in tgt_df.columns
key_missing(src, tgt, pk) ==
    pk \notin src.columns \/ pk \notin tgt.columns

\* total_source // chunk_size: the last, shorter chunk is lost
chunk_count_floor(total, size) ==
    total \div size

\* math.ceil(total_source / chunk_size)
chunk_count(total, size) ==
    (total + size - 1) \div size

Min(a, b) == IF a < b THEN a ELSE b

Max(a, b) == IF a > b THEN a ELSE b

\* auto_tune_settings with the size tiers closed on the wrong side
auto_tune_settings_strict_tiers(total_records, physical_cores, available) ==
    LET cpu_count == IF physical_cores = 0 THEN 1 ELSE physical_cores
        tier ==
            IF total_records < 100000
            THEN [chunk_size |-> 20000, threads |-> Min(6, cpu_count)]
            ELSE IF total_records < 1000000
            THEN [chunk_size |-> 30000, threads |-> Min(8, cpu_count * 2)]
            ELSE [chunk_size |-> 50000, threads |-> Min(16, cpu_count * 2)]
    IN  IF available < 4 * 1024
        THEN [chunk_size |-> Max(5000, tier.chunk_size \div 2),
              threads    |-> Max(2, tier.threads \div 2)]
        ELSE tier

\* lines 25-37.  physical_cores is what psutil.cpu_count(logical=False)
\* returns, 0 standing for None; available is
\* psutil.virtual_memory().available in whole MiB, so that mem_gb < 4 is
\* available < 4 * 1024
auto_tune_settings(total_records, physical_cores, available) ==
    LET cpu_count == IF physical_cores = 0 THEN 1 ELSE physical_cores
        tier ==
            IF total_records <= 100000
            THEN [chunk_size |-> 20000, threads |-> Min(6, cpu_count)]
            ELSE IF total_records <= 1000000
            THEN [chunk_size |-> 30000, threads |-> Min(8, cpu_count * 2)]
            ELSE [chunk_size |-> 50000, threads |-> Min(16, cpu_count * 2)]
    IN  IF available < 4 * 1024
        THEN [chunk_size |-> Max(5000, tier.chunk_size \div 2),
              threads    |-> Max(2, tier.threads \div 2)]
        ELSE tier

\* start, end = i * chunk_size, min((i + 1) * chunk_size, total_source),
\* i counted from 0; src_df.iloc[start:end]
src_slice(df, i, size) ==
    LET start == i * size
        end   == Min((i + 1) * size, Len(df.rows))
    IN  [columns |-> df.columns, rows |-> SubSeq(df.rows, start + 1, end)]

\* every chunk is compared against the whole target table
tgt_subset_unfiltered(tgt, src_chunk, pk) ==
    tgt

\* tgt_df[tgt_df[pk_col].isin(src_chunk[pk_col])]
tgt_subset(tgt, src_chunk, pk) ==
    LET keys == {src_chunk.rows[j][pk] : j \in 1..Len(src_chunk.rows)}
    IN  [columns |-> tgt.columns,
         rows    |-> SelectSeq(tgt.rows, LAMBDA row : row[pk] \in keys)]

\* the last result replaces the running totals
add_result_overwrite(a, res) ==
    [all_diffs  |-> a.all_diffs \o res.diffs,
     matched    |-> res.matched,
     missing    |-> res.missing,
     mismatched |-> res.mismatched,
     checked    |-> res.checked]

\* a chunk's diffs are put in front of the list instead of at its end
add_result_diffs_in_front(a, res) ==
    [all_diffs  |-> res.diffs \o a.all_diffs,
     matched    |-> a.matched + res.matched,
     missing    |-> a.missing + res.missing,
     mismatched |-> a.mismatched + res.mismatched,
     checked    |-> a.checked + res.checked]

\* all_diffs.extend(res["diffs"]); matched += res["matched"]; ...
add_result(a, res) ==
    [all_diffs  |-> a.all_diffs \o res.diffs,
     matched    |-> a.matched + res.matched,
     missing    |-> a.missing + res.missing,
     mismatched |-> a.mismatched + res.mismatched,
     checked    |-> a.checked + res.checked]

\* a worker's exception is swallowed
result_raises_never(f) ==
    FALSE

\* f.result() re-raises the exception of the worker
result_raises(f) ==
    f.state = "raised"

\* the four summary lines
summary(a) ==
    [source_count     |-> Len(src_df.rows),
     target_count     |-> Len(tgt_df.rows),
     matched_count    |-> a.matched,
     mismatched_count |-> a.mismatched]

EmptyAgg ==
    [all_diffs |-> <<>>, matched |-> 0, missing |-> 0, mismatched |-> 0,
     checked |-> 0]

OutputBlobName == "output/diff_result.txt"

Running == {i \in 1..Len(futures) : futures[i].state = "running"}
Finished == {i \in 1..Len(futures) : futures[i].state \in {"finished", "raised"}}

----------------------------------------------------------------------------
(* State after the function app is loaded, before a request arrives *)

Init ==
    /\ pc = "start"
    /\ req_body = NoRequest
    /\ src_df = NoFrame
    /\ tgt_df = NoFrame
    /\ pk_col = ""
    /\ chunk_size = 0
    /\ thread_count = 0
    /\ chunks = 0
    /\ futures = <<>>
    /\ queue = <<>>
    /\ done_order = <<>>
    /\ collected = {}
    /\ early = {}
    /\ agg = EmptyAgg
    /\ exc = "none"
    /\ sink = <<>>
    /\ response = NoResponse
    /\ fn_in = NA
    /\ fn_out = <<>>

----------------------------------------------------------------------------
(* main, __init__.py:5-22 *)

\* lines 8-17 and, when get_json or .get raises, 20-22
Main ==
    /\ pc = "start"
    /\ \E body \in Requests :
        /\ req_body' = body
        /\ IF body.json = "invalid"
           THEN /\ exc' = "ValueError"
                /\ pc' = "except"
                /\ UNCHANGED << pk_col, response >>
           ELSE IF body.json # "object"
           THEN /\ exc' = "AttributeError"
                /\ pc' = "except"
                /\ UNCHANGED << pk_col, response >>
           ELSE IF body.source_blob \in {Absent, ""}
                   \/ body.target_blob \in {Absent, ""}
           THEN /\ response' = [status_code |-> 400,
                                body |-> "Missing 'source_blob' or 'target_blob'"]
                /\ pc' = "done"
                /\ pk_col' = IF body.pk_col = Absent THEN "cr_commit_no"
                             ELSE body.pk_col
                /\ UNCHANGED exc
           ELSE /\ pk_col' = IF body.pk_col = Absent THEN "cr_commit_no"
                             ELSE body.pk_col
                /\ pc' = "read_src"
                /\ UNCHANGED << exc, response >>
    /\ UNCHANGED << src_df, tgt_df, chunk_size, thread_count, chunks, futures,
                    queue, done_order, collected, agg, sink, fn_in, fn_out, early >>

\* line 18: process_parallel_blob returned output_blob
MainReturn ==
    /\ pc = "return"
    /\ response' = [status_code |-> 200, body |-> OutputBlobName]
    /\ pc' = "done"
    /\ UNCHANGED << req_body, src_df, tgt_df, pk_col, chunk_size, thread_count,
                    chunks, futures, queue, done_order, collected, agg, exc,
                    sink, fn_in, fn_out, early >>

\* lines 20-22: return func.HttpResponse(str(e), status_code=500)
MainExcept ==
    /\ pc = "except"
    /\ response' = [status_code |-> 500, body |-> exc]
    /\ pc' = "done"
    /\ UNCHANGED << req_body, src_df, tgt_df, pk_col, chunk_size, thread_count,
                    chunks, futures, queue, done_order, collected, agg, exc,
                    sink, fn_in, fn_out, early >>

----------------------------------------------------------------------------
(* process_parallel_blob: the main thread *)

\* line 77: the download or the parse fails, or a table is returned
ReadSource ==
    /\ pc = "read_src"
    /\ \/ /\ exc' = "SourceUnavailable"
          /\ pc' = "except"
          /\ UNCHANGED src_df
       \/ \E csv \in SourceCsv :
          /\ src_df' = read_blob_to_df(csv)
          /\ pc' = "read_tgt"
          /\ UNCHANGED exc
    /\ UNCHANGED << req_body, tgt_df, pk_col, chunk_size, thread_count, chunks,
                    futures, queue, done_order, collected, agg, sink, response,
                    fn_in, fn_out, early >>

\* line 78
ReadTarget ==
    /\ pc = "read_tgt"
    /\ \/ /\ exc' = "SourceUnavailable"
          /\ pc' = "except"
          /\ UNCHANGED tgt_df
       \/ \E csv \in TargetCsv :
          /\ tgt_df' = read_blob_to_df(csv)
          /\ pc' = "validate"
          /\ UNCHANGED exc
    /\ UNCHANGED << req_body, src_df, pk_col, chunk_size, thread_count, chunks,
                    futures, queue, done_order, collected, agg, sink, response,
                    fn_in, fn_out, early >>

\* lines 79-80
Validate ==
    /\ pc = "validate"
    /\ IF key_missing(src_df, tgt_df, pk_col)
       THEN /\ exc' = "KeyError"
            /\ pc' = "except"
       ELSE /\ pc' = "tune"
            /\ UNCHANGED exc
    /\ UNCHANGED << req_body, src_df, tgt_df, pk_col, chunk_size, thread_count,
                    chunks, futures, queue, done_order, collected, agg, sink,
                    response, fn_in, fn_out, early >>

\* lines 81-86.  auto_tune_settings picks the sizes from the machine's core
\* count and free memory.  Its own chunk sizes (5000 and more) put any table
\* of this model in a single chunk, so the engine is run for every chunk
\* size in 1..MaxChunkSize and every worker count in 1..MaxThreads.
Tune ==
    /\ pc = "tune"
    /\ \E size \in 1..MaxChunkSize, threads \in 1..MaxThreads :
        /\ chunk_size' = size
        /\ thread_count' = threads
        /\ chunks' = chunk_count(Len(src_df.rows), size)
    /\ agg' = EmptyAgg
    /\ pc' = "submit"
    /\ UNCHANGED << req_body, src_df, tgt_df, pk_col, futures, queue,
                    done_order, collected, exc, sink, response, fn_in, fn_out, early >>

\* lines 90-94: one iteration of the submission loop
Submit ==
    /\ pc = "submit"
    /\ Len(futures) < chunks
    /\ LET i         == Len(futures)
           src_chunk == src_slice(src_df, i, chunk_size)
           tgt_chunk == tgt_subset(tgt_df, src_chunk, pk_col)
       IN  /\ futures' = Append(futures,
                                [src_chunk |-> src_chunk,
                                 tgt_chunk |-> tgt_chunk,
                                 state     |-> "pending",
                                 result    |-> EmptyResult])
           /\ queue' = Append(queue, i + 1)
    /\ UNCHANGED << pc, req_body, src_df, tgt_df, pk_col, chunk_size,
                    thread_count, chunks, done_order, collected, agg, exc,
                    sink, response, fn_in, fn_out, early >>

\* the submission loop ends and as_completed(futures) is entered: it first
\* takes the set of the futures that have already finished
SubmitDone ==
    /\ pc = "submit"
    /\ Len(futures) = chunks
    /\ early' = Finished
    /\ pc' = "collect"
    /\ UNCHANGED << req_body, src_df, tgt_df, pk_col, chunk_size, thread_count,
                    chunks, futures, queue, done_order, collected, agg, exc,
                    sink, response, fn_in, fn_out >>

\* the futures as_completed may yield next: those of its initial set come
\* first, iterated as a Python set (in no defined order); the others follow
\* one by one in the order their workers finish
yieldable ==
    IF early \ collected # {}
    THEN early \ collected
    ELSE LET late == SelectSeq(done_order, LAMBDA i : i \notin collected)
         IN  IF late = <<>> THEN {} ELSE {Head(late)}

\* lines 96-101: as_completed yields a finished future; f.result() returns
\* the chunk's result, which is added up, or re-raises the worker's exception
Collect ==
    /\ pc = "collect"
    /\ \E i \in yieldable :
        /\ collected' = collected \cup {i}
        /\ IF result_raises(futures[i])
           THEN /\ exc' = "WorkerFailure"
                /\ pc' = "shutdown"
                /\ UNCHANGED agg
           ELSE /\ agg' = add_result(agg, futures[i].result)
                /\ UNCHANGED << pc, exc >>
    /\ UNCHANGED << req_body, src_df, tgt_df, pk_col, chunk_size, thread_count,
                    chunks, futures, queue, done_order, early, sink, response,
                    fn_in, fn_out >>

\* the loop ends as soon as no finished future is waiting to be collected
CollectDoneWithoutWaiting ==
    /\ pc = "collect"
    /\ yieldable = {}
    /\ pc' = "shutdown"
    /\ UNCHANGED << req_body, src_df, tgt_df, pk_col, chunk_size, thread_count,
                    chunks, futures, queue, done_order, collected, early, agg,
                    exc, sink, response, fn_in, fn_out >>

\* as_completed is exhausted: the loop ends and the with block is left
CollectDone ==
    /\ pc = "collect"
    /\ collected = 1..Len(futures)
    /\ pc' = "shutdown"
    /\ UNCHANGED << req_body, src_df, tgt_df, pk_col, chunk_size, thread_count,
                    chunks, futures, queue, done_order, collected, agg, exc,
                    sink, response, fn_in, fn_out, early >>

\* the with statement's exit, executor.shutdown(wait=True): returns when
\* every queued work item has run; then the exception, if any, propagates
ExecutorExit ==
    /\ pc = "shutdown"
    /\ queue = <<>>
    /\ Running = {}
    /\ pc' = IF exc = "none" THEN "write" ELSE "except"
    /\ UNCHANGED << req_body, src_df, tgt_df, pk_col, chunk_size, thread_count,
                    chunks, futures, queue, done_order, collected, agg, exc,
                    sink, response, fn_in, fn_out, early >>

\* WriteResults with the upload's failure swallowed: the blob name is returned
\* although nothing was stored
WriteResultsIgnoresFailure ==
    /\ pc = "write"
    /\ \/ sink' = Append(sink, [blob_name |-> OutputBlobName,
                                content   |-> summary(agg)])
       \/ UNCHANGED sink
    /\ pc' = "return"
    /\ UNCHANGED << req_body, src_df, tgt_df, pk_col, chunk_size, thread_count,
                    chunks, futures, queue, done_order, collected, early, agg,
                    exc, response, fn_in, fn_out >>

\* lines 103-113: format the summary and upload it
WriteResults ==
    /\ pc = "write"
    /\ \/ /\ sink' = Append(sink, [blob_name |-> OutputBlobName,
                                   content   |-> summary(agg)])
          /\ pc' = "return"
          /\ UNCHANGED exc
       \/ /\ exc' = "SinkUnavailable"
          /\ pc' = "except"
          /\ UNCHANGED sink
    /\ UNCHANGED << req_body, src_df, tgt_df, pk_col, chunk_size, thread_count,
                    chunks, futures, queue, done_order, collected, agg,
                    response, fn_in, fn_out, early >>

----------------------------------------------------------------------------
(* ThreadPoolExecutor(max_workers=thread_count): the pool's workers *)

\* the workers stop taking work items once the main thread waits for the pool
WorkerStartUnlessShutdown ==
    /\ pc # "shutdown"
    /\ queue # <<>>
    /\ Cardinality(Running) < thread_count
    /\ futures' = [futures EXCEPT ![Head(queue)].state = "running"]
    /\ queue' = Tail(queue)
    /\ UNCHANGED << pc, req_body, src_df, tgt_df, pk_col, chunk_size,
                    thread_count, chunks, done_order, collected, early, agg,
                    exc, sink, response, fn_in, fn_out >>

\* a worker takes the oldest queued work item
WorkerStart ==
    /\ queue # <<>>
    /\ Cardinality(Running) < thread_count
    /\ futures' = [futures EXCEPT ![Head(queue)].state = "running"]
    /\ queue' = Tail(queue)
    /\ UNCHANGED << pc, req_body, src_df, tgt_df, pk_col, chunk_size,
                    thread_count, chunks, done_order, collected, agg, exc,
                    sink, response, fn_in, fn_out, early >>

\* compare_chunk returns its result
WorkerReturn ==
    /\ \E i \in Running :
        /\ futures' = [futures EXCEPT
                          ![i].state = "finished",
                          ![i].result = compare_chunk(futures[i].src_chunk,
                                                      futures[i].tgt_chunk,
                                                      pk_col)]
        /\ done_order' = Append(done_order, i)
    /\ UNCHANGED << pc, req_body, src_df, tgt_df, pk_col, chunk_size,
                    thread_count, chunks, queue, collected, agg, exc, sink,
                    response, fn_in, fn_out, early >>

\* compare_chunk raises an unexpected error
WorkerRaise ==
    /\ \E i \in Running :
        /\ futures' = [futures EXCEPT ![i].state = "raised"]
        /\ done_order' = Append(done_order, i)
    /\ UNCHANGED << pc, req_body, src_df, tgt_df, pk_col, chunk_size,
                    thread_count, chunks, queue, collected, agg, exc, sink,
                    response, fn_in, fn_out, early >>

Next ==
    \/ Main
    \/ MainReturn
    \/ MainExcept
    \/ ReadSource
    \/ ReadTarget
    \/ Validate
    \/ Tune
    \/ Submit
    \/ SubmitDone
    \/ Collect
    \/ CollectDone
    \/ ExecutorExit
    \/ WriteResults
    \/ WorkerStart
    \/ WorkerReturn
    \/ WorkerRaise

Spec == Init /\ [][Next]_vars

\* the steps of the thread that runs main
MainThread ==
    \/ Main
    \/ MainReturn
    \/ MainExcept
    \/ ReadSource
    \/ ReadTarget
    \/ Validate
    \/ Tune
    \/ Submit
    \/ SubmitDone
    \/ Collect
    \/ CollectDone
    \/ ExecutorExit
    \/ WriteResults

\* the steps of the pool's worker threads
PoolWorkers ==
    \/ WorkerStart
    \/ WorkerReturn
    \/ WorkerRaise

\* Scheduling: the main thread keeps running while it is not blocked; the
\* pool keeps working while a work item is queued for an idle worker or a
\* compare_chunk is running, which returns or raises.
SpecFair ==
    /\ Spec
    /\ WF_vars(MainThread)
    /\ WF_vars(PoolWorkers)

----------------------------------------------------------------------------
(* normalize and compare_chunk applied on their own, to cell values that   *)
(* have not been through read_blob_to_df                                    *)

MaxStrLen  == 3
MaxCellLen == 3

Alphabet == {"a", SP, TAB, CR, NL, NBSP}

\* int and float values, by their str()
Numbers ==
    { Num(<< "7" >>), Num(<< "1", ".", "0" >>), Num(<< "2", ".", "5" >>),
      Num(<< "-", "0", ".", "0" >>), Num(<< "1", "0", ".", "0" >>),
      Num(<< "1", "e", "+", "1", "6" >>) }

RawValues ==
    {Str(s) : s \in SeqsUpTo(Alphabet, MaxStrLen)}
        \cup {Str(<< "1", ".", "0" >>)} \cup Numbers \cup {NA}

RawCells == {Str(s) : s \in SeqsUpTo(Alphabet, MaxCellLen)}

RawTargetCells ==
    { Str(<<>>), Str(<< "a" >>), Str(<< "a", "a" >>), Str(<< "a", SP, "a" >>),
      Str(<< NL, "a" >>), Str(<< "a", TAB, "a" >>), Str(<< "a", NL, "a" >>) }

RawWideCells == { Str(<<>>), Str(<< "a" >>), Str(<< SP, "a" >>) }

RawSourceKeys == {Str(<< SP, "k", TAB >>), Str(<< "k", NBSP, "k" >>)}
RawTargetKeys == {Str(<< "k" >>), Str(<< "k", "k" >>)}

ChunkInputs ==
    { [fn        |-> "compare_chunk",
       src_chunk |-> [columns |-> {"pk", "a"},
                      rows |-> << [pk |-> k1, a |-> v1] >>],
       tgt_chunk |-> [columns |-> {"pk", "a"},
                      rows |-> << [pk |-> k2, a |-> v2] >>]] :
      k1 \in RawSourceKeys, k2 \in RawTargetKeys,
      v1 \in RawCells, v2 \in RawTargetCells }
    \cup
    { [fn        |-> "compare_chunk",
       src_chunk |-> [columns |-> {"pk", "a"},
                      rows |-> << [pk |-> k1, a |-> v1] >>],
       tgt_chunk |-> [columns |-> {"pk"},
                      rows |-> << [pk |-> k2] >>]] :
      k1 \in RawSourceKeys, k2 \in RawTargetKeys, v1 \in RawCells }
    \cup
    { [fn        |-> "compare_chunk",
       src_chunk |-> [columns |-> {"pk", "a", "b"},
                      rows |-> << [pk |-> k1, a |-> v1, b |-> w1] >>],
       tgt_chunk |-> [columns |-> {"pk", "a", "b"},
                      rows |-> << [pk |-> k2, a |-> v2, b |-> w2] >>]] :
      k1 \in RawSourceKeys, k2 \in RawTargetKeys,
      v1 \in RawTargetCells, v2 \in RawTargetCells,
      w1 \in RawWideCells, w2 \in RawWideCells }
    \cup
    { [fn        |-> "compare_chunk",
       src_chunk |-> [columns |-> {"pk", "a", "b"},
                      rows |-> << [pk |-> k1, a |-> v1, b |-> w1] >>],
       tgt_chunk |-> [columns |-> {"pk", "b"},
                      rows |-> << [pk |-> k2, b |-> w2] >>]] :
      k1 \in RawSourceKeys, k2 \in RawTargetKeys, v1 \in RawTargetCells,
      w1 \in RawWideCells, w2 \in RawWideCells }

MaxCores == 9
MaxDelta == 1

\* row counts around the tier limits of lines 28 and 30, core counts with 0
\* for "not known", available memory around the 4 GiB of line 34
TotalRecords ==
    (0..MaxDelta) \cup ((100000 - MaxDelta)..(100000 + MaxDelta))
                  \cup ((1000000 - MaxDelta)..(1000000 + MaxDelta))

AvailableMiB == (0..MaxDelta) \cup ((4 * 1024 - MaxDelta)..(4 * 1024 + MaxDelta))

TuneInputs ==
    [ fn : {"auto_tune_settings"}, total_records : TotalRecords,
      physical_cores : 0..MaxCores, available : AvailableMiB ]

InitPure ==
    /\ pc = "apply"
    /\ req_body = NoRequest
    /\ src_df = NoFrame
    /\ tgt_df = NoFrame
    /\ pk_col = "pk"
    /\ chunk_size = 0
    /\ thread_count = 0
    /\ chunks = 0
    /\ futures = <<>>
    /\ queue = <<>>
    /\ done_order = <<>>
    /\ collected = {}
    /\ early = {}
    /\ agg = EmptyAgg
    /\ exc = "none"
    /\ sink = <<>>
    /\ response = NoResponse
    /\ fn_in \in {[fn |-> "normalize", val |-> v] : v \in RawValues}
                    \cup ChunkInputs \cup TuneInputs
    /\ fn_out = <<>>

ApplyNormalize ==
    /\ pc = "apply"
    /\ fn_in.fn = "normalize"
    /\ fn_out' = [once  |-> normalize(fn_in.val),
                  twice |-> normalize(Str(normalize(fn_in.val)))]
    /\ pc' = "applied"
    /\ UNCHANGED << req_body, src_df, tgt_df, pk_col, chunk_size, thread_count,
                    chunks, futures, queue, done_order, collected, agg, exc,
                    sink, response, fn_in, early >>

ApplyCompareChunk ==
    /\ pc = "apply"
    /\ fn_in.fn = "compare_chunk"
    /\ fn_out' = compare_chunk(fn_in.src_chunk, fn_in.tgt_chunk, pk_col)
    /\ pc' = "applied"
    /\ UNCHANGED << req_body, src_df, tgt_df, pk_col, chunk_size, thread_count,
                    chunks, futures, queue, done_order, collected, agg, exc,
                    sink, response, fn_in, early >>

ApplyAutoTune ==
    /\ pc = "apply"
    /\ fn_in.fn = "auto_tune_settings"
    /\ fn_out' = auto_tune_settings(fn_in.total_records, fn_in.physical_cores,
                                    fn_in.available)
    /\ pc' = "applied"
    /\ UNCHANGED << req_body, src_df, tgt_df, pk_col, chunk_size, thread_count,
                    chunks, futures, queue, done_order, collected, early, agg,
                    exc, sink, response, fn_in >>

NextPure ==
    \/ ApplyNormalize
    \/ ApplyCompareChunk
    \/ ApplyAutoTune

SpecPure == InitPure /\ [][NextPure]_vars

----------------------------------------------------------------------------
(* Properties *)

\* the submission loop has ended
Submitted ==
    /\ chunk_size >= 1
    /\ pc \notin {"start", "read_src", "read_tgt", "validate", "tune", "submit"}

\* every chunk's result has been added to the totals
AllAggregated ==
    /\ Submitted
    /\ exc \in {"none", "SinkUnavailable"}
    /\ collected = 1..chunks

RECURSIVE ConcatChunks(_, _)
ConcatChunks(fs, i) ==
    IF i > Len(fs) THEN <<>>
    ELSE fs[i].src_chunk.rows \o ConcatChunks(fs, i + 1)

\* C1: once every chunk is submitted, the number of chunks is
\* ceil(total_source / chunk_size), chunk i holds exactly the rows
\* [i*chunk_size, min((i+1)*chunk_size, total_source)) of the source, each
\* chunk has between 1 and chunk_size rows, and the chunks concatenated in
\* index order are the source table.
C1_ChunksPartitionSource ==
    Submitted =>
        LET total == Len(src_df.rows)
        IN  /\ Len(futures) = chunks
            /\ chunks * chunk_size >= total
            /\ (chunks - 1) * chunk_size < total \/ chunks = 0
            /\ \A i \in 1..Len(futures) :
                   LET rows == futures[i].src_chunk.rows
                   IN  /\ Len(rows) >= 1
                       /\ Len(rows) <= chunk_size
                       /\ \A j \in 1..Len(rows) :
                              /\ (i - 1) * chunk_size + j <= total
                              /\ rows[j] = src_df.rows[(i - 1) * chunk_size + j]
            /\ ConcatChunks(futures, 1) = src_df.rows

C1_Witness ==
    /\ pc = "collect"
    /\ Len(src_df.rows) = 3
    /\ chunk_size = 2
    /\ Len(futures) = 2
    /\ Len(futures[2].src_chunk.rows) = 1

C1_WitnessEmpty ==
    /\ pc = "collect"
    /\ src_df.rows = <<>>
    /\ "pk" \in src_df.columns
    /\ futures = <<>>

\* C2: every result a worker returned has checked = matched + missing +
\* mismatched = number of rows of its source chunk; the running totals always
\* have checked = matched + missing + mismatched, and once all results are
\* added checked is the number of source rows.
C2_EveryRowOneOutcome ==
    /\ \A i \in 1..Len(futures) :
           futures[i].state = "finished" =>
               LET r == futures[i].result
               IN  /\ r.checked = r.matched + r.missing + r.mismatched
                   /\ r.checked = Len(futures[i].src_chunk.rows)
    /\ agg.checked = agg.matched + agg.missing + agg.mismatched
    /\ AllAggregated => agg.checked = Len(src_df.rows)

C2_Witness ==
    /\ pc = "write"
    /\ chunks >= 2
    /\ agg.matched >= 1
    /\ agg.missing >= 1
    /\ agg.mismatched >= 1

\* the counters of chunks i..n of the table, compared one after the other
RECURSIVE InOrderCounters(_, _, _, _, _)
InOrderCounters(src, tgt, pk, size, i) ==
    IF i * size >= Len(src.rows)
    THEN [matched |-> 0, missing |-> 0, mismatched |-> 0, checked |-> 0]
    ELSE LET c    == src_slice(src, i, size)
             r    == compare_chunk(c, tgt_subset(tgt, c, pk), pk)
             rest == InOrderCounters(src, tgt, pk, size, i + 1)
         IN  [matched    |-> r.matched + rest.matched,
              missing    |-> r.missing + rest.missing,
              mismatched |-> r.mismatched + rest.mismatched,
              checked    |-> r.checked + rest.checked]

Counters(a) ==
    [matched |-> a.matched, missing |-> a.missing,
     mismatched |-> a.mismatched, checked |-> a.checked]

\* C3: once all results are added, the counters are those of comparing the
\* chunks one after the other in index order: they depend on the tables, the
\* key and chunk_size only, not on thread_count nor on the order in which
\* workers started, finished or were collected.
C3_CountersIndependentOfWorkers ==
    AllAggregated =>
        Counters(agg) = InOrderCounters(src_df, tgt_df, pk_col, chunk_size, 0)

C3_Witness ==
    /\ AllAggregated
    /\ thread_count = 2
    /\ chunks = 3
    /\ done_order = << 2, 1, 3 >>
    /\ agg.matched >= 1
    /\ agg.mismatched >= 1

\* the table is compared against itself
SelfCompare ==
    /\ AllAggregated
    /\ tgt_df = src_df

\* rows of df with the same normalized key have the same normalized cells
\* in every other column
DuplicatesAgree(df, pk) ==
    \A i, j \in 1..Len(df.rows) :
        normalize(df.rows[i][pk]) = normalize(df.rows[j][pk]) =>
            \A col \in df.columns \ {pk} :
                normalize(df.rows[i][col]) = normalize(df.rows[j][col])

C5_MissingOnlyIfNoNormalizedKeyInTarget ==
    AllAggregated =>
        \A d \in 1..Len(agg.all_diffs) :
            agg.all_diffs[d].Status = "MISSING_IN_TARGET" =>
                \A j \in 1..Len(tgt_df.rows) :
                    normalize(tgt_df.rows[j][pk_col]) # agg.all_diffs[d].PK

\* a cell with \xa0, \t and \r removed, then trimmed
Cosmetic(s) ==
    strip(SelectSeq(s, LAMBDA ch : ch \notin {NBSP, TAB, CR}))

\* C6: when the source row found its target row and every compared target
\* cell equals the source cell up to trimming and removal of \xa0, \t and
\* \r (a column the target lacks reading as empty), compare_chunk counts the
\* row as matched and emits no DiffRecord.
C6_CosmeticDifferencesMatch ==
    (pc = "applied" /\ fn_in.fn = "compare_chunk") =>
        LET src == fn_in.src_chunk.rows[1]
            tgt == fn_in.tgt_chunk.rows[1]
            same(col) ==
                Cosmetic(src[col].s) =
                    IF col \in fn_in.tgt_chunk.columns
                    THEN Cosmetic(tgt[col].s) ELSE <<>>
        IN  (/\ fn_out.missing = 0
             /\ \A col \in fn_in.src_chunk.columns \ {pk_col} : same(col))
            => /\ fn_out.matched = 1
               /\ fn_out.mismatched = 0
               /\ fn_out.diffs = <<>>

C6_Witness ==
    /\ pc = "applied"
    /\ fn_in.fn = "compare_chunk"
    /\ fn_in.src_chunk.rows[1]["a"] = Str(<< "a", NBSP, "a" >>)
    /\ fn_in.tgt_chunk.columns = {"pk", "a"}
    /\ fn_in.tgt_chunk.rows[1]["a"] = Str(<< "a", TAB, "a" >>)
    /\ fn_in.src_chunk.rows[1]["pk"] # fn_in.tgt_chunk.rows[1]["pk"]
    /\ fn_out.matched = 1

\* C7: when the key column is absent from a loaded table, the run ends with
\* KeyError: no chunk size is tuned, no chunk is created, no work item is
\* submitted, no counter is produced and nothing is uploaded.
C7_KeyErrorBeforeAnyWork ==
    (/\ src_df # NoFrame
     /\ tgt_df # NoFrame
     /\ pk_col \notin src_df.columns \/ pk_col \notin tgt_df.columns)
    => /\ pc \in {"validate", "except", "done"}
       /\ pc # "validate" => exc = "KeyError"
       /\ pc = "done" => response = [status_code |-> 500, body |-> "KeyError"]
       /\ chunk_size = 0
       /\ chunks = 0
       /\ futures = <<>>
       /\ queue = <<>>
       /\ agg = EmptyAgg
       /\ sink = <<>>

C7_Witness ==
    /\ pc = "done"
    /\ exc = "KeyError"
    /\ pk_col \in src_df.columns
    /\ src_df.rows # <<>>
    /\ tgt_df # NoFrame
    /\ pk_col \notin tgt_df.columns

\* C8: once a worker has raised, nothing is ever uploaded, no output
\* location is returned, and the run ends with the worker's error.
C8_WorkerFailureIsTotal ==
    (\E i \in 1..Len(futures) : futures[i].state = "raised") =>
        /\ sink = <<>>
        /\ pc \notin {"write", "return"}
        /\ pc = "except" => exc = "WorkerFailure"
        /\ pc = "done" =>
               response = [status_code |-> 500, body |-> "WorkerFailure"]

C8_Witness ==
    /\ pc = "done"
    /\ exc = "WorkerFailure"
    /\ agg.checked >= 1
    /\ \E i \in collected : futures[i].state = "finished"
    /\ sink = <<>>

\* C9: normalize(normalize(x)) = normalize(x) for every raw value x.
C9_NormalizeIdempotent ==
    (pc = "applied" /\ fn_in.fn = "normalize") => fn_out.twice = fn_out.once

C9_Witness ==
    /\ pc = "applied"
    /\ fn_in.fn = "normalize"
    /\ fn_in.val = Str(<< TAB, SP, "a" >>)
    /\ fn_out.once = << "a" >>

\* C10: a request without a non-empty source_blob or target_blob is answered
\* with status 400, and no table is loaded, nothing is compared and nothing
\* is uploaded.
C10_MissingBlobIs400 ==
    (/\ pc = "done"
     /\ \/ req_body.source_blob \in {Absent, ""}
        \/ req_body.target_blob \in {Absent, ""})
    => /\ response.status_code = 400
       /\ src_df = NoFrame
       /\ tgt_df = NoFrame
       /\ futures = <<>>
       /\ sink = <<>>

----------------------------------------------------------------------------
(* C11 *)

Failures == {"SourceUnavailable", "KeyError", "WorkerFailure",
             "SinkUnavailable"}

\* C11: main answers 200 only when the report has been stored, and then with
\* the stored blob's name; when loading a table, the key validation, a chunk
\* worker or the upload has failed, main's response is 500 with the failure's
\* description, also when every chunk had been compared and added up.
C11_SuccessOnlyIfStored ==
    /\ response.status_code = 200 =>
           /\ exc = "none"
           /\ Len(sink) = 1
           /\ response.body = sink[1].blob_name
    /\ (pc = "done" /\ exc \in Failures) =>
           response = [status_code |-> 500, body |-> exc]

\* the comparison completed, the upload failed, main answered 500
C11_Witness ==
    /\ pc = "done"
    /\ exc = "SinkUnavailable"
    /\ chunks = 2
    /\ collected = 1..chunks
    /\ agg.checked = Len(src_df.rows)
    /\ sink = <<>>
    /\ response = [status_code |-> 500, body |-> "SinkUnavailable"]

----------------------------------------------------------------------------
(* C12 *)

\* the sizing policy as the specification states it, memory not yet looked at
DefaultPolicy(n, cores) ==
    CASE n <= 100000                  -> << 20000, Min(6, cores) >>
      [] n > 100000 /\ n <= 1000000   -> << 30000, Min(8, 2 * cores) >>
      [] OTHER                        -> << 50000, Min(16, 2 * cores) >>

\* C12: for every row count >= 0, every core count >= 1 and every amount of
\* available memory, auto_tune_settings returns the default policy's sizes,
\* halved with floors 5000 (chunk size) and 2 (workers) when less than 4 GiB
\* are available; whatever the inputs, chunk_size >= 1 and threads >= 1.
C12_AutoTuneFollowsPolicy ==
    (pc = "applied" /\ fn_in.fn = "auto_tune_settings") =>
        /\ fn_out.chunk_size >= 1
        /\ fn_out.threads >= 1
        /\ fn_in.physical_cores >= 1 =>
             LET p == DefaultPolicy(fn_in.total_records, fn_in.physical_cores)
             IN  IF fn_in.available < 4 * 1024
                 THEN /\ fn_out.chunk_size = Max(5000, p[1] \div 2)
                      /\ fn_out.threads = Max(2, p[2] \div 2)
                 ELSE /\ fn_out.chunk_size = p[1]
                      /\ fn_out.threads = p[2]

\* exactly 100000 rows on 3 cores with memory short: still the first tier,
\* halved
C12_Witness ==
    /\ pc = "applied"
    /\ fn_in.fn = "auto_tune_settings"
    /\ fn_in.total_records = 100000
    /\ fn_in.physical_cores = 3
    /\ fn_in.available = 4 * 1024 - 1
    /\ fn_out = [chunk_size |-> 10000, threads |-> 2]

----------------------------------------------------------------------------
(* C13 *)

\* C13: once the main thread has observed a worker's failure (f.result() has
\* re-raised), no chunk that is still waiting in the executor's queue is
\* started.
C13_PendingCancelledAfterFailure ==
    [][exc = "WorkerFailure" =>
          \A i \in 1..Len(futures) :
              futures[i].state = "pending" => futures'[i].state = "pending"]_vars

----------------------------------------------------------------------------
(* C14 *)

\* positions of the target rows whose normalized key is that of src_row
SameKeyRows(src_row, tgt_chunk, pk) ==
    {j \in 1..Len(tgt_chunk.rows) :
        normalize(tgt_chunk.rows[j][pk]) = normalize(src_row[pk])}

\* what comparing src_row with the last target row of its key gives
LastWinsOutcome(src_row, tgt_chunk, pk) ==
    LET same == SameKeyRows(src_row, tgt_chunk, pk)
    IN  IF same = {} THEN "MISSING_IN_TARGET"
        ELSE LET last == tgt_chunk.rows[CHOOSE j \in same :
                                           \A k \in same : k <= j]
             IN  IF \E col \in DOMAIN src_row \ {pk} :
                        normalize(src_row[col]) #
                            (IF col \in DOMAIN last THEN normalize(last[col])
                             ELSE <<>>)
                 THEN "MISMATCH"
                 ELSE "matched"

ReturnedFutures == {i \in 1..Len(futures) : futures[i].state = "finished"}

\* C14: in every chunk a worker has compared, each source row's outcome is
\* that of its comparison with the last target row, in target order, that has
\* its normalized key; source rows that share a key are each compared and
\* counted (checked is the number of source rows), and the diff list names
\* the rows that did not match, in source order.
C14_LastTargetRowWins ==
    \A i \in ReturnedFutures :
        LET src == futures[i].src_chunk
            res == futures[i].result
            outcome == [j \in 1..Len(src.rows) |->
                           LastWinsOutcome(src.rows[j],
                                           futures[i].tgt_chunk, pk_col)]
            count(o) == Cardinality({j \in 1..Len(src.rows) : outcome[j] = o})
            unmatched == SelectSeq(outcome, LAMBDA o : o # "matched")
        IN  /\ res.checked = Len(src.rows)
            /\ res.matched = count("matched")
            /\ res.mismatched = count("MISMATCH")
            /\ res.missing = count("MISSING_IN_TARGET")
            /\ unmatched = [d \in 1..Len(res.diffs) |-> res.diffs[d].Status]

\* one chunk of two source rows with the same key and the same cells, against
\* two target rows of that key of which only the first agrees with them: both
\* source rows are mismatched
C14_Witness ==
    \E i \in ReturnedFutures :
        LET src == futures[i].src_chunk.rows
            tgt == futures[i].tgt_chunk.rows
        IN  /\ Len(src) = 2
            /\ Len(tgt) = 2
            /\ src[1] = src[2]
            /\ tgt[1] = src[1]
            /\ tgt[2][pk_col] = tgt[1][pk_col]
            /\ tgt[2]["a"] # tgt[1]["a"]
            /\ futures[i].result.checked = 2
            /\ futures[i].result.mismatched = 2
            /\ Len(futures[i].result.diffs) = 2

----------------------------------------------------------------------------
(* C15 *)

\* C15: when the source row's normalized key is in the target map,
\* compare_chunk compares every non-key column of the source chunk, a column
\* the target row lacks reading as the empty string.  If some columns differ
\* it emits one MISMATCH DiffRecord whose Diff has exactly those columns, each
\* with the normalized source and target values, and counts the row as
\* mismatched; if none differs it emits nothing and counts the row as matched.
C15_MismatchListsDifferingColumns ==
    (/\ pc = "applied"
     /\ fn_in.fn = "compare_chunk"
     /\ normalize(fn_in.src_chunk.rows[1][pk_col])
            = normalize(fn_in.tgt_chunk.rows[1][pk_col]))
    => LET src == fn_in.src_chunk.rows[1]
           tgt == fn_in.tgt_chunk.rows[1]
           tgt_val(col) == IF col \in DOMAIN tgt THEN normalize(tgt[col])
                           ELSE <<>>
           differing == {col \in fn_in.src_chunk.columns \ {pk_col} :
                            normalize(src[col]) # tgt_val(col)}
       IN  /\ fn_out.checked = 1
           /\ fn_out.missing = 0
           /\ IF differing # {}
              THEN /\ fn_out.mismatched = 1
                   /\ fn_out.matched = 0
                   /\ Len(fn_out.diffs) = 1
                   /\ fn_out.diffs[1].PK = normalize(src[pk_col])
                   /\ fn_out.diffs[1].Status = "MISMATCH"
                   /\ DOMAIN fn_out.diffs[1].Diff = differing
                   /\ \A col \in differing :
                          fn_out.diffs[1].Diff[col] =
                              [src |-> normalize(src[col]), tgt |-> tgt_val(col)]
              ELSE /\ fn_out.mismatched = 0
                   /\ fn_out.matched = 1
                   /\ fn_out.diffs = <<>>

\* column a is absent from the target row and differs, column b agrees up to
\* a leading blank: the DiffRecord lists a alone, against the empty string
C15_Witness ==
    /\ pc = "applied"
    /\ fn_in.fn = "compare_chunk"
    /\ fn_in.src_chunk.columns = {"pk", "a", "b"}
    /\ fn_in.tgt_chunk.columns = {"pk", "b"}
    /\ fn_in.src_chunk.rows[1]["a"] = Str(<< "a", TAB, "a" >>)
    /\ fn_in.src_chunk.rows[1]["b"] = Str(<< SP, "a" >>)
    /\ fn_in.tgt_chunk.rows[1]["b"] = Str(<< "a" >>)
    /\ fn_out.mismatched = 1
    /\ Len(fn_out.diffs) = 1
    /\ fn_out.diffs[1].Diff =
           [col \in {"a"} |-> [src |-> << "a", "a" >>, tgt |-> <<>>]]

----------------------------------------------------------------------------
(* C16 *)

\* the diff lists of the chunks order[1], order[2], ... one after the other
RECURSIVE DiffsInOrder(_, _)
DiffsInOrder(order, k) ==
    IF k > Len(order) THEN <<>>
    ELSE futures[order[k]].result.diffs \o DiffsInOrder(order, k + 1)

\* the orderings of a set of futures
Orderings(S) ==
    {o \in [1..Cardinality(S) -> S] :
        \A x, y \in 1..Cardinality(S) : x # y => o[x] # o[y]}

----------------------------------------------------------------------------
(* C17 *)

\* the target table without the rows whose key is the key of no source row
WithoutStrangers(tgt, src, pk) ==
    [columns |-> tgt.columns,
     rows    |-> SelectSeq(tgt.rows,
                     LAMBDA row : \E j \in 1..Len(src.rows) :
                                      src.rows[j][pk] = row[pk])]

\* C17: the target rows whose key is the key of no source row change
\* nothing but the target row count: every chunk's result (its DiffRecords
\* and counters), the aggregated counters and the report's other lines are
\* those of the run on the target table with these rows removed.
C17_UnmatchedTargetRowsHaveNoEffect ==
    AllAggregated =>
        LET kept == WithoutStrangers(tgt_df, src_df, pk_col)
        IN  /\ \A i \in 1..chunks :
                   futures[i].result =
                       compare_chunk(futures[i].src_chunk,
                                     tgt_subset(kept, futures[i].src_chunk,
                                                pk_col),
                                     pk_col)
            /\ Counters(agg) =
                   InOrderCounters(src_df, kept, pk_col, chunk_size, 0)
            /\ \A b \in 1..Len(sink) :
                   /\ sink[b].content.target_count = Len(tgt_df.rows)
                   /\ sink[b].content.source_count = Len(src_df.rows)
                   /\ sink[b].content.matched_count = agg.matched
                   /\ sink[b].content.mismatched_count = agg.mismatched

\* the target has a row of key z, which no source row has, next to a row the
\* source row is compared with: the report counts two target rows and one
\* mismatch, and has no record of z
C17_Witness ==
    /\ AllAggregated
    /\ Len(src_df.rows) = 1
    /\ Len(tgt_df.rows) = 2
    /\ \E j \in 1..2 : normalize(tgt_df.rows[j][pk_col]) = << "z" >>
    /\ Len(WithoutStrangers(tgt_df, src_df, pk_col).rows) = 1
    /\ agg.mismatched = 1
    /\ Len(agg.all_diffs) = 1
    /\ agg.all_diffs[1].PK # << "z" >>
    /\ Len(sink) = 1
    /\ sink[1].content.target_count = 2

----------------------------------------------------------------------------
(* C18 *)

\* C18: whatever chunk_size >= 1 cuts the source into, the aggregated
\* matched, missing and mismatched are those of comparing the whole source
\* table, as one chunk, with the whole target table.
C18_CountersIndependentOfChunkSize ==
    AllAggregated =>
        LET whole == compare_chunk(src_df, tgt_df, pk_col)
        IN  /\ agg.matched = whole.matched
            /\ agg.missing = whole.missing
            /\ agg.mismatched = whole.mismatched

----------------------------------------------------------------------------
(* C19 *)

\* C19: a run uploads at most one report, and the upload happens (the main
\* thread is at write_results_to_blob, or the blob is in the sink) only when
\* every chunk has been submitted, compared and added to the totals: no work
\* item is queued and no worker is running.
C19_WriteOnceAfterAllChunks ==
    /\ Len(sink) <= 1
    /\ (pc = "write" \/ sink # <<>>) =>
           /\ Len(futures) = chunks
           /\ \A i \in 1..chunks : futures[i].state = "finished"
           /\ collected = 1..chunks
           /\ queue = <<>>
           /\ Running = {}
           /\ agg.checked = Len(src_df.rows)

\* three chunks through a pool of one worker, the report stored
C19_Witness ==
    /\ Len(sink) = 1
    /\ chunks = 3
    /\ thread_count = 1
    /\ collected = {1, 2, 3}
    /\ sink[1].content = summary(agg)

----------------------------------------------------------------------------
(* C20 *)

\* C20: under fair scheduling of the main thread and of the pool's workers,
\* every run of process_parallel_blob ends, either returning the location of
\* the stored report or raising an error to its caller, never both: it
\* returns only with the report stored and no exception, and it raises only
\* with nothing stored.
C20_RunEndsStoredOrRaised ==
    /\ (pc = "read_src") ~> (pc \in {"return", "except"})
    /\ [](pc = "return" => (exc = "none" /\ Len(sink) = 1))
    /\ [](pc = "except" => (exc # "none" /\ sink = <<>>))

\* three chunks through a pool of one worker, a worker failed and the chunks
\* that were queued have run: the error is raised to the caller
C20_Witness ==
    /\ pc = "except"
    /\ exc = "WorkerFailure"
    /\ chunks = 3
    /\ thread_count = 1
    /\ Cardinality(collected) = 1
    /\ \A i \in 1..chunks : futures[i].state \in {"finished", "raised"}

====
